---- MODULE Spec2Model ----
(***************************************************************************)
(* FSVA seed-and-vote matcher (src/FSVA/fsva.py).                          *)
(*                                                                         *)
(* A Python string is a sequence of one-character strings; a 4-position    *)
(* masked code is a sequence of four of them.  Python indices are 0-based, *)
(* TLA+ sequences 1-based: offset i of the code is element i+1 here.       *)
(***************************************************************************)
EXTENDS Integers, Sequences, FiniteSets, TLC

\* ---------------------------------------------------------------- bounds
MaxReadLen == 2
MaxRefLen == 2
MaxSeedTextLen == 2
MaxLookupRefLen == 2
MaxMatches == 3
MaxOffset == 4
MaxLocality == 3
MaxSWLen == 3

\* ------------------------------------------------------ generic helpers
Max2(a, b) == IF a >= b THEN a ELSE b

Min2(a, b) == IF a <= b THEN a ELSE b

Range(s) == {s[k] : k \in 1..Len(s)}

\* All sequences over S of length 0..n.
SeqsUpTo(S, n) == UNION {[1..k -> S] : k \in 0..n}

\* Python s[a:b] (step 1): negative indices count from the end, both ends
\* are clamped to [0, len(s)], an empty slice when start >= stop.
PyIndex(k, n) == IF k < 0 THEN Max2(k + n, 0) ELSE Min2(k, n)

PySlice(s, a, b) ==
    LET start == PyIndex(a, Len(s))
        stop == PyIndex(b, Len(s))
    IN IF start < stop THEN SubSeq(s, start + 1, stop) ELSE <<>>

\* Python a // b (floor division) for b # 0.
PyFloorDiv(a, b) == IF b > 0 THEN a \div b ELSE (0 - a) \div (0 - b)

\* -------------------------------------------------------------- encoding
Wild == "*"

\* Mutant: the code of T with its second position masked.
base_encoding_typo ==
    [b \in {"A", "C", "T", "G", "N"} |->
        CASE b = "A" -> <<"0", "*", "0", "1">>
          [] b = "C" -> <<"1", "1", "*", "0">>
          [] b = "T" -> <<"1", "*", "*", "0">>
          [] b = "G" -> <<"0", "*", "1", "1">>
          [] b = "N" -> <<"*", "*", "*", "*">>]

base_encoding ==
    [b \in {"A", "C", "T", "G", "N"} |->
        CASE b = "A" -> <<"0", "*", "0", "1">>
          [] b = "C" -> <<"1", "1", "*", "0">>
          [] b = "T" -> <<"1", "0", "*", "0">>
          [] b = "G" -> <<"0", "*", "1", "1">>
          [] b = "N" -> <<"*", "*", "*", "*">>]

UnknownCode == <<"?", "?", "?", "?">>

\* Mutant: an unrecognized symbol encoded as the all-wildcard code.
encode_sequence_wild(sequence) ==
    [k \in 1..Len(sequence) |->
        IF sequence[k] \in DOMAIN base_encoding
        THEN base_encoding[sequence[k]]
        ELSE <<"*", "*", "*", "*">>]

encode_sequence(sequence) ==
    [k \in 1..Len(sequence) |->
        IF sequence[k] \in DOMAIN base_encoding
        THEN base_encoding[sequence[k]]
        ELSE UnknownCode]

\* Mutant: range(len(read) - seed_length), one seed short.
generate_encoded_seeds_short(rd, sl) ==
    [k \in 1..Max2(0, Len(rd) - sl) |->
        encode_sequence(PySlice(rd, k - 1, k - 1 + sl))]

generate_encoded_seeds(rd, sl) ==
    [k \in 1..Max2(0, Len(rd) - sl + 1) |->
        encode_sequence(PySlice(rd, k - 1, k - 1 + sl))]

\* ---------------------------------------------------------- TCAM lookup
match_with_wildcard(encoded_base, encoded_ref) ==
    \A p \in 1..Min2(Len(encoded_base), Len(encoded_ref)) :
        ~(encoded_base[p] # Wild /\ encoded_ref[p] # Wild
            /\ encoded_base[p] # encoded_ref[p])

\* Mutant: the break taken when the count reaches the budget (>=).
RECURSIVE WindowMismatches_eager(_, _, _, _, _)
WindowMismatches_eager(enc_seed, window, maxhd, k, mismatches) ==
    IF k > Min2(Len(enc_seed), Len(window)) THEN mismatches
    ELSE IF ~match_with_wildcard(enc_seed[k], window[k])
         THEN IF mismatches + 1 >= maxhd
              THEN mismatches + 1
              ELSE WindowMismatches_eager(enc_seed, window, maxhd, k + 1,
                                          mismatches + 1)
         ELSE WindowMismatches_eager(enc_seed, window, maxhd, k + 1, mismatches)

\* The inner loop of tcam_lookup_with_encoding over zip(seed, window), from
\* pair k on with `mismatches` counted so far; it breaks as soon as the
\* count exceeds the budget.
RECURSIVE WindowMismatches(_, _, _, _, _)
WindowMismatches(enc_seed, window, maxhd, k, mismatches) ==
    IF k > Min2(Len(enc_seed), Len(window)) THEN mismatches
    ELSE IF ~match_with_wildcard(enc_seed[k], window[k])
         THEN IF mismatches + 1 > maxhd
              THEN mismatches + 1
              ELSE WindowMismatches(enc_seed, window, maxhd, k + 1, mismatches + 1)
         ELSE WindowMismatches(enc_seed, window, maxhd, k + 1, mismatches)

\* Number of windows range(len(encoded_reference) - seed_length + 1) visits.
WindowCount(enc_seed, enc_ref) == Max2(0, Len(enc_ref) - Len(enc_seed) + 1)

WindowAccepted(enc_seed, enc_ref, maxhd, i) ==
    WindowMismatches(enc_seed, PySlice(enc_ref, i, i + Len(enc_seed)), maxhd, 1, 0)
        <= maxhd

tcam_lookup_with_encoding(enc_seed, enc_ref, maxhd) ==
    SelectSeq([w \in 1..WindowCount(enc_seed, enc_ref) |-> w - 1],
              LAMBDA i : WindowAccepted(enc_seed, enc_ref, maxhd, i))

\* --------------------------------------------------------------- voting
\* vote_counts is a dict in insertion order: a sequence of <<key, count>>.
VoteKeys(vc) == {vc[k][1] : k \in 1..Len(vc)}

VoteCount(vc, key) ==
    IF key \in VoteKeys(vc)
    THEN (CHOOSE e \in Range(vc) : e[1] = key)[2]
    ELSE 0

\* Mutant: the bucket index, not scaled back to an offset.
locality_start_unscaled(match, ls) == PyFloorDiv(match, ls)

locality_start(match, ls) == PyFloorDiv(match, ls) * ls

\* Mutant: vote_counts[locality_start] = 1 instead of += 1.
VoteOne_reset(vc, match, ls) ==
    LET key == PyFloorDiv(match, ls) * ls
    IN IF key \in VoteKeys(vc)
       THEN [k \in 1..Len(vc) |-> IF vc[k][1] = key THEN <<key, 1>> ELSE vc[k]]
       ELSE Append(vc, <<key, 1>>)

\* One iteration of the loop of voting: vote_counts[locality_start] += 1.
VoteOne(vc, match, ls) ==
    LET key == locality_start(match, ls)
    IN IF key \in VoteKeys(vc)
       THEN [k \in 1..Len(vc) |->
                IF vc[k][1] = key THEN <<key, vc[k][2] + 1>> ELSE vc[k]]
       ELSE Append(vc, <<key, 1>>)

RECURSIVE VoteFrom(_, _, _, _)
VoteFrom(vc, matches, ls, k) ==
    IF k > Len(matches) THEN vc
    ELSE VoteFrom(VoteOne(vc, matches[k], ls), matches, ls, k + 1)

voting(matches, ls) == VoteFrom(<<>>, matches, ls, 1)

\* voting divides by locality_size once per match: it raises exactly when
\* locality_size = 0 and there is a match to bucket.
VotingRaises(matches, ls) == ls = 0 /\ Len(matches) > 0

\* Mutant: an exclusive threshold.
PassesStrict(count, threshold) == count > threshold

Passes(count, threshold) == count >= threshold

filtering(vc, threshold) ==
    LET kept == SelectSeq(vc, LAMBDA e : Passes(e[2], threshold))
    IN [k \in 1..Len(kept) |-> kept[k][1]]

\* ------------------------------------------------------- Smith-Waterman
MatchBonus == 2
MismatchPenalty == -1
GapPenalty == -1

ZeroMatrix(m, n) == [c \in (0..m) \X (0..n) |-> 0]

\* Mutant: the comparison inverted.
Substitution_swapped(a, b) == IF a # b THEN MatchBonus ELSE MismatchPenalty

Substitution(a, b) == IF a = b THEN MatchBonus ELSE MismatchPenalty

\* dp[i][j] = max(0, match, delete, insert) for 1 <= i <= m, 1 <= j <= n.
SWCell(d, q, r, i, j) ==
    LET match == d[<<i - 1, j - 1>>] + Substitution(q[i], r[j])
        delete == d[<<i - 1, j>>] + GapPenalty
        insert == d[<<i, j - 1>>] + GapPenalty
    IN Max2(Max2(0, match), Max2(delete, insert))

\* The two nested loops, from cell (i, j) on, in row-major order.
RECURSIVE SWFrom(_, _, _, _, _, _)
SWFrom(d, best, q, r, i, j) ==
    IF i > Len(q) \/ Len(r) = 0 THEN best
    ELSE LET v == SWCell(d, q, r, i, j)
             d2 == [d EXCEPT ![<<i, j>>] = v]
         IN IF j < Len(r)
            THEN SWFrom(d2, Max2(best, v), q, r, i, j + 1)
            ELSE SWFrom(d2, Max2(best, v), q, r, i + 1, 1)

smith_waterman(q, r) == SWFrom(ZeroMatrix(Len(q), Len(r)), 0, q, r, 1, 1)

\* ---------------------------------------------------------------- state
VARIABLES
    pc,                   \* position in the operation being run
    read, reference,      \* the two input sequences
    seed_length, max_hamming_distance, locality_size, vote_threshold,
    encoded_reference,    \* encode_sequence(reference)
    encoded_seeds,        \* generate_encoded_seeds(read, seed_length)
    seed_idx,             \* seeds already looked up by the for loop
    all_matches,          \* the merged match list
    windows_scanned,      \* reference windows compared so far
    vote_counts,          \* the vote dict, in insertion order
    vote_idx,             \* matches already tallied by voting's loop
    candidates,           \* the list filtering returns
    result,               \* the returned items, each the tuple of its fields
    error,                \* the exception that ended the call, or "none"
    dp, sw_i, sw_j, max_score   \* smith_waterman's matrix, loop indices, maximum

vars == <<pc, read, reference, seed_length, max_hamming_distance, locality_size,
          vote_threshold, encoded_reference, encoded_seeds, seed_idx, all_matches,
          windows_scanned, vote_counts, vote_idx, candidates, result, error,
          dp, sw_i, sw_j, max_score>>

inputs == <<read, reference, seed_length, max_hamming_distance, locality_size,
            vote_threshold>>

swVars == <<dp, sw_i, sw_j, max_score>>

\* The locals of a call before any statement has run.
FreshLocals ==
    /\ encoded_reference = <<>>
    /\ encoded_seeds = <<>>
    /\ seed_idx = 0
    /\ all_matches = <<>>
    /\ windows_scanned = 0
    /\ vote_counts = <<>>
    /\ vote_idx = 0
    /\ candidates = <<>>
    /\ result = <<>>
    /\ error = "none"
    /\ dp = <<>>
    /\ sw_i = 0
    /\ sw_j = 0
    /\ max_score = 0

\* Line 150: each returned item is a bare offset, a single field.
ReturnedItems(cands) == [k \in 1..Len(cands) |-> <<cands[k]>>]

\* Mutant: a set-union merge, dropping offsets already in the list.
ExtendUnique(all, matches) ==
    all \o SelectSeq(matches, LAMBDA o : o \notin Range(all))

\* Line 144: all_matches.extend(matches).
Extend(all, matches) == all \o matches

\* --------------------------------------------- fsva_with_encoding, by phase
\* Lines 134-141: encode the reference, slice and encode the seeds.
Encode ==
    /\ pc = "start"
    /\ encoded_reference' = encode_sequence(reference)
    /\ encoded_seeds' = generate_encoded_seeds(read, seed_length)
    /\ all_matches' = <<>>
    /\ seed_idx' = 0
    /\ pc' = "lookup"
    /\ UNCHANGED <<inputs, windows_scanned, vote_counts, vote_idx, candidates,
                   result, error, swVars>>

\* Lines 142-144: one iteration of the loop over the seeds.
LookupSeed ==
    /\ pc = "lookup"
    /\ seed_idx < Len(encoded_seeds)
    /\ LET encoded_seed == encoded_seeds[seed_idx + 1]
           matches == tcam_lookup_with_encoding(encoded_seed, encoded_reference,
                                                max_hamming_distance)
       IN /\ all_matches' = Extend(all_matches, matches)
          /\ windows_scanned' =
                windows_scanned + WindowCount(encoded_seed, encoded_reference)
    /\ seed_idx' = seed_idx + 1
    /\ UNCHANGED <<pc, inputs, encoded_reference, encoded_seeds, vote_counts,
                   vote_idx, candidates, result, error, swVars>>

\* Line 147: the call of voting, which raises ZeroDivisionError on its first
\* match when locality_size = 0; nothing catches it.
Vote ==
    /\ pc = "lookup"
    /\ seed_idx = Len(encoded_seeds)
    /\ IF VotingRaises(all_matches, locality_size)
       THEN /\ error' = "ZeroDivisionError"
            /\ pc' = "raised"
            /\ UNCHANGED <<vote_counts, vote_idx>>
       ELSE /\ vote_counts' = voting(all_matches, locality_size)
            /\ vote_idx' = Len(all_matches)
            /\ pc' = "filter"
            /\ UNCHANGED error
    /\ UNCHANGED <<inputs, encoded_reference, encoded_seeds, seed_idx, all_matches,
                   windows_scanned, candidates, result, swVars>>

\* Lines 148-150: filter and return the candidate list.
FilterAndReturn ==
    /\ pc = "filter"
    /\ candidates' = filtering(vote_counts, vote_threshold)
    /\ result' = ReturnedItems(candidates')
    /\ pc' = "done"
    /\ UNCHANGED <<inputs, encoded_reference, encoded_seeds, seed_idx, all_matches,
                   windows_scanned, vote_counts, vote_idx, error, swVars>>

Next == Encode \/ LookupSeed \/ Vote \/ FilterAndReturn

\* The module-level run of lines 154-161.
ExampleRead == <<"A", "C", "G", "T", "A", "C", "G", "T">>
ExampleReference ==
    <<"A", "C", "G", "T", "A", "C", "G", "T", "A", "C", "G", "T", "A", "C", "G", "T">>
ExampleSeedLength == 4
ExampleMaxHammingDistance == 1
ExampleLocalitySize == 4
ExampleVoteThreshold == 2

IsExample ==
    /\ read = ExampleRead
    /\ reference = ExampleReference
    /\ seed_length = ExampleSeedLength
    /\ max_hamming_distance = ExampleMaxHammingDistance
    /\ locality_size = ExampleLocalitySize
    /\ vote_threshold = ExampleVoteThreshold

\* Inputs of the pipeline runs: short reads and references over two bases,
\* with every parameter ranging over valid and invalid values.
PipelineSymbols == {"A", "C"}
SeedLengths == -1..(MaxReadLen + 1)
HammingBudgets == -1..1
LocalitySizes == -1..2
VoteThresholds == 0..2

Init ==
    /\ pc = "start"
    /\ \/ IsExample
       \/ /\ read \in SeqsUpTo(PipelineSymbols, MaxReadLen)
          /\ reference \in SeqsUpTo(PipelineSymbols, MaxRefLen)
          /\ seed_length \in SeedLengths
          /\ max_hamming_distance \in HammingBudgets
          /\ locality_size \in LocalitySizes
          /\ vote_threshold \in VoteThresholds
    /\ FreshLocals

Spec == Init /\ [][Next]_vars

\* ------------------------------------------- one seed against a reference
\* A single lookup: the read is the seed (seed_length = len(read)), over the
\* declared alphabet and one symbol outside it, with a non-negative budget.
LookupSymbols == {"A", "C", "G", "T", "N", "X"}
LookupBudgets == 0..2

InitLookup ==
    /\ pc = "start"
    /\ read \in SeqsUpTo(LookupSymbols, MaxSeedTextLen)
    /\ reference \in SeqsUpTo(LookupSymbols, MaxLookupRefLen)
    /\ seed_length = Len(read)
    /\ max_hamming_distance \in LookupBudgets
    /\ locality_size = 1
    /\ vote_threshold = 1
    /\ FreshLocals

SpecLookup == InitLookup /\ [][Next]_vars

\* ------------------------------------------------ voting, match by match
\* Lines 84-86: one iteration of voting's loop.
VoteStep ==
    /\ pc = "voting"
    /\ vote_idx < Len(all_matches)
    /\ IF locality_size = 0
       THEN /\ error' = "ZeroDivisionError"
            /\ pc' = "raised"
            /\ UNCHANGED <<vote_counts, vote_idx>>
       ELSE /\ vote_counts' = VoteOne(vote_counts, all_matches[vote_idx + 1],
                                      locality_size)
            /\ vote_idx' = vote_idx + 1
            /\ UNCHANGED <<pc, error>>
    /\ UNCHANGED <<inputs, encoded_reference, encoded_seeds, seed_idx, all_matches,
                   windows_scanned, candidates, result, swVars>>

\* Line 87: return vote_counts.
VoteReturn ==
    /\ pc = "voting"
    /\ vote_idx = Len(all_matches)
    /\ pc' = "voted"
    /\ UNCHANGED <<inputs, encoded_reference, encoded_seeds, seed_idx, all_matches,
                   windows_scanned, vote_counts, vote_idx, candidates, result,
                   error, swVars>>

NextVoting == VoteStep \/ VoteReturn

InitVoting ==
    /\ pc = "voting"
    /\ read = <<>>
    /\ reference = <<>>
    /\ seed_length = 1
    /\ max_hamming_distance = 0
    /\ vote_threshold = 1
    /\ locality_size \in 0..MaxLocality
    /\ encoded_reference = <<>>
    /\ encoded_seeds = <<>>
    /\ seed_idx = 0
    /\ all_matches \in SeqsUpTo(0..MaxOffset, MaxMatches)
    /\ windows_scanned = 0
    /\ vote_counts = <<>>
    /\ vote_idx = 0
    /\ candidates = <<>>
    /\ result = <<>>
    /\ error = "none"
    /\ dp = <<>>
    /\ sw_i = 0
    /\ sw_j = 0
    /\ max_score = 0

SpecVoting == InitVoting /\ [][NextVoting]_vars

\* ------------------------------------------- smith_waterman, cell by cell
\* Lines 114-118: the body of the inner loop for cell (sw_i, sw_j).
SWCellStep ==
    /\ pc = "sw"
    /\ sw_i <= Len(read)
    /\ Len(reference) > 0
    /\ LET v == SWCell(dp, read, reference, sw_i, sw_j)
       IN /\ dp' = [dp EXCEPT ![<<sw_i, sw_j>>] = v]
          /\ max_score' = Max2(max_score, v)
    /\ IF sw_j < Len(reference)
       THEN sw_j' = sw_j + 1 /\ sw_i' = sw_i
       ELSE sw_j' = 1 /\ sw_i' = sw_i + 1
    /\ UNCHANGED <<pc, inputs, encoded_reference, encoded_seeds, seed_idx,
                   all_matches, windows_scanned, vote_counts, vote_idx, candidates,
                   result, error>>

\* Line 120: return max_score.
SWReturn ==
    /\ pc = "sw"
    /\ sw_i > Len(read) \/ Len(reference) = 0
    /\ pc' = "sw_done"
    /\ UNCHANGED <<inputs, encoded_reference, encoded_seeds, seed_idx, all_matches,
                   windows_scanned, vote_counts, vote_idx, candidates, result,
                   error, swVars>>

NextSW == SWCellStep \/ SWReturn

SWSymbols == {"A", "C", "G"}

\* smith_waterman(query, reference) with query = read.
InitSW ==
    /\ pc = "sw"
    /\ read \in SeqsUpTo(SWSymbols, MaxSWLen)
    /\ reference \in SeqsUpTo(SWSymbols, MaxSWLen)
    /\ seed_length = 1
    /\ max_hamming_distance = 0
    /\ locality_size = 1
    /\ vote_threshold = 1
    /\ encoded_reference = <<>>
    /\ encoded_seeds = <<>>
    /\ seed_idx = 0
    /\ all_matches = <<>>
    /\ windows_scanned = 0
    /\ vote_counts = <<>>
    /\ vote_idx = 0
    /\ candidates = <<>>
    /\ result = <<>>
    /\ error = "none"
    /\ dp = ZeroMatrix(Len(read), Len(reference))
    /\ sw_i = 1
    /\ sw_j = 1
    /\ max_score = 0

SpecSW == InitSW /\ [][NextSW]_vars

\* ============================================================== claims
CanonicalBases == {"A", "C", "G", "T"}
DeclaredAlphabet == {"A", "C", "G", "T", "N"}

\* Occurrences of x in sequence s.
Count(s, x) == Cardinality({k \in 1..Len(s) : s[k] = x})

RECURSIVE SumCounts(_, _)
SumCounts(vc, k) == IF k > Len(vc) THEN 0 ELSE vc[k][2] + SumCounts(vc, k + 1)

\* Mismatching positions of the whole window at offset i, no early exit.
FullMismatches(enc_seed, enc_ref, i) ==
    Cardinality({k \in 1..Len(enc_seed) :
                    ~match_with_wildcard(enc_seed[k], enc_ref[i + k])})

\* Plain Hamming distance between sd and the window of rf at offset i.
Hamming(sd, rf, i) == Cardinality({k \in 1..Len(sd) : sd[k] # rf[i + k]})

\* The <<symbol, code>> pairs of the single-seed lookup being run.
EncodedPairs ==
    {<<read[p], encoded_seeds[1][p]>> : p \in 1..Len(read)}
        \cup {<<reference[q], encoded_reference[q]>> : q \in 1..Len(reference)}

SingleSeedEncoded ==
    pc # "start" /\ seed_length = Len(read) /\ Len(encoded_seeds) = 1

SingleSeedLookedUp == SingleSeedEncoded /\ seed_idx = 1

\* Lookup results of seed number s of the run, as the code computes them.
SeedMatches(s) ==
    tcam_lookup_with_encoding(encoded_seeds[s], encoded_reference,
                              max_hamming_distance)

\* Seed/offset pairs matched by the seeds looked up so far.
MatchedPairs == {<<s, o>> \in (1..seed_idx) \X (0..Len(reference)) :
                    o \in Range(SeedMatches(s))}

\* Votes a locality bucket b should hold: one per entry of the merged list.
VotesFor(b) ==
    Cardinality({k \in 1..Len(all_matches) :
                    PyFloorDiv(all_matches[k], locality_size) * locality_size = b})

RECURSIVE ConcatReversed(_)
ConcatReversed(s) == IF s = 0 THEN <<>> ELSE SeedMatches(s) \o ConcatReversed(s - 1)

C2_UnknownCodeMatching ==
    SingleSeedEncoded =>
        /\ error = "none"
        /\ \A x \in EncodedPairs :
              x[1] \notin DeclaredAlphabet =>
                 /\ x[2] = <<"?", "?", "?", "?">>
                 /\ \A y \in EncodedPairs :
                       /\ match_with_wildcard(x[2], y[2]) <=> y[1] \notin CanonicalBases
                       /\ match_with_wildcard(y[2], x[2]) <=> y[1] \notin CanonicalBases

\* C2 as stated: the code of an unrecognized symbol matches the code of every
\* symbol.
C2_AsClaimed ==
    SingleSeedEncoded =>
        /\ error = "none"
        /\ \A x \in EncodedPairs :
              x[1] \notin DeclaredAlphabet =>
                 \A y \in EncodedPairs : match_with_wildcard(x[2], y[2])

C2_Witness ==
    /\ SingleSeedLookedUp
    /\ \E p \in 1..Len(read) : read[p] \notin DeclaredAlphabet
    /\ "A" \in Range(reference)
    /\ "N" \in Range(reference)

\* C3: with max_hamming_distance >= 0, the lookup reports offset i
\* (0 <= i <= |reference| - |seed|), once and in ascending order, iff the whole
\* window at i has at most max_hamming_distance masked mismatches: the early
\* break changes nothing.
C3_LookupIffWithinBudget ==
    (SingleSeedLookedUp /\ max_hamming_distance >= 0) =>
        /\ Range(all_matches) =
              {i \in 0..(Len(reference) - Len(read)) :
                  FullMismatches(encoded_seeds[1], encoded_reference, i)
                      <= max_hamming_distance}
        /\ \A k \in 1..(Len(all_matches) - 1) : all_matches[k] < all_matches[k + 1]

\* A window whose scan is cut short: two mismatches with a budget of zero.
C3_Witness ==
    /\ SingleSeedLookedUp
    /\ max_hamming_distance = 0
    /\ Len(read) = 2
    /\ Len(reference) = 2
    /\ FullMismatches(encoded_seeds[1], encoded_reference, 0) = 2
    /\ all_matches = <<>>

\* C10: on A, C, G, T the masked comparison is plain symbol equality, the
\* code of N matches each of them, and a lookup over A, C, G, T returns exactly
\* the offsets whose window is within plain Hamming distance
\* max_hamming_distance of the seed.
C10_MaskedIsPlainOnBases ==
    /\ SingleSeedEncoded =>
          \A x, y \in EncodedPairs :
             /\ (x[1] \in CanonicalBases /\ y[1] \in CanonicalBases) =>
                   (match_with_wildcard(x[2], y[2]) <=> x[1] = y[1])
             /\ (x[1] = "N" /\ y[1] \in CanonicalBases) =>
                   (match_with_wildcard(x[2], y[2]) /\ match_with_wildcard(y[2], x[2]))
    /\ (/\ SingleSeedLookedUp
        /\ Range(read) \subseteq CanonicalBases
        /\ Range(reference) \subseteq CanonicalBases) =>
          Range(all_matches) =
             {i \in 0..(Len(reference) - Len(read)) :
                 Hamming(read, reference, i) <= max_hamming_distance}

C10_Witness ==
    /\ SingleSeedLookedUp
    /\ read = <<"C", "G">>
    /\ reference = <<"T", "G">>
    /\ max_hamming_distance = 1
    /\ all_matches = <<0>>

\* The reference window the spec scores a candidate against: the slice
\* reference[c : c + |read|], clamped to the end of the reference.
ClampedWindow(c) == PySlice(reference, c, c + Len(read))

\* Offsets a bucket start can take (a negative locality_size rounds up).
BucketRange == 0..(Len(reference) + 1)

Returned == pc = "done"

InvalidConfig ==
    \/ seed_length <= 0
    \/ locality_size <= 0
    \/ vote_threshold <= 0
    \/ max_hamming_distance < 0

\* C5 as stated: with an invalid configuration the pipeline never gets past
\* its entry: it ends in a configuration failure with no window scanned and no
\* candidate list returned.
C5_AsClaimed ==
    InvalidConfig =>
        /\ pc \in {"start", "raised"}
        /\ pc = "raised" => error = "ConfigurationError"
        /\ windows_scanned = 0
        /\ result = <<>>

C7_SeedsAreTheSlices ==
    (pc # "start" /\ seed_length >= 1) =>
        /\ Len(encoded_seeds) =
              (IF Len(read) - seed_length + 1 > 0
               THEN Len(read) - seed_length + 1 ELSE 0)
        /\ \A i \in 0..(Len(encoded_seeds) - 1) :
              /\ Len(encoded_seeds[i + 1]) = seed_length
              /\ \A k \in 1..seed_length :
                    encoded_seeds[i + 1][k] = base_encoding[read[i + k]]
        /\ seed_length > Len(read) =>
              /\ encoded_seeds = <<>>
              /\ all_matches = <<>>
              /\ pc # "raised"
              /\ error = "none"
              /\ pc = "done" => result = <<>>

C7_Witness ==
    /\ pc = "done"
    /\ seed_length > Len(read)
    /\ Len(read) >= 1
    /\ Len(reference) >= 1
    /\ locality_size = 0
    /\ result = <<>>

\* C8: for non-negative offsets and locality_size > 0, after k offsets have
\* been tallied the counts sum to k (to the number of input offsets at the
\* end), every key is floor(o / locality_size) * locality_size of a tallied
\* offset o, keys are distinct and every stored count is >= 1.
C8_VoteConservation ==
    (pc \in {"voting", "voted"} /\ locality_size > 0) =>
        /\ SumCounts(vote_counts, 1) = vote_idx
        /\ pc = "voted" => SumCounts(vote_counts, 1) = Len(all_matches)
        /\ \A e \in Range(vote_counts) :
              /\ e[2] >= 1
              /\ \E k \in 1..vote_idx :
                    e[1] = (all_matches[k] \div locality_size) * locality_size
        /\ Cardinality(VoteKeys(vote_counts)) = Len(vote_counts)

C8_Witness ==
    /\ pc = "voted"
    /\ locality_size = 2
    /\ Len(all_matches) = 3
    /\ all_matches[1] = all_matches[3]
    /\ Len(vote_counts) = 2

\* C9: smith_waterman(s, s) = 2 * |s| (also for the empty s), and no cell of
\* the matrix, at any point of the fill, exceeds 2 * |s|.
C9_SelfScore ==
    (pc \in {"sw", "sw_done"} /\ read = reference) =>
        /\ \A c \in DOMAIN dp : dp[c] <= 2 * Len(read)
        /\ max_score <= 2 * Len(read)
        /\ pc = "sw_done" => max_score = 2 * Len(read)

C9_Witness ==
    /\ pc = "sw_done"
    /\ read = reference
    /\ Len(read) = 3
    /\ read[1] = read[3]
    /\ max_score = 6

====
